---- MODULE Spec2Model ----
(***************************************************************************)
(* AutoPolicy (core/policy/auto_policy.py): one motion controller per env  *)
(* id, emergency-stop arbitration, and the collect/eval mode interfaces;   *)
(* and the episode loop of main (demo/implicit/collect_data.py).           *)
(*                                                                         *)
(* Units.  steer, throttle and brake are integers in hundredths (0.3 is    *)
(* 30, 1.0 is 100).  PID gains K_P, K_D, K_I and dt are integers in        *)
(* thousandths (0.58 is 580, dt 0.1 is 100).  Speeds and distances are     *)
(* integers in the observation's own unit.  Positions are one-dimensional  *)
(* lateral offsets in hundredths.                                          *)
(***************************************************************************)
EXTENDS Integers, Sequences, FiniteSets, TLC

VARIABLES
    _cfg,                   \* self._cfg, the configuration given to __init__
    target_speed,           \* self.target_speed
    _max_brake,             \* self._max_brake
    _max_throttle,          \* self._max_throttle
    _max_steer,             \* self._max_steer
    _ignore_traffic_light,  \* self._ignore_traffic_light
    _lateral_dict,          \* self._lateral_dict (name of a gain dict, or "None")
    _longitudinal_dict,     \* self._longitudinal_dict
    _controller_dict,       \* self._controller_dict: id -> controller
    _last_steer_dict,       \* self._last_steer_dict: id -> steer
    ret,                    \* the last public call: its arguments and outcome
    normal_steer,           \* history: id -> <<>> or <<steer of the last
                            \* non-emergency _forward since the id's last _reset>>
    episode_nums,           \* cfg.episode_nums of main
    collected_episodes,     \* main's counter
    new_data,               \* len(new_data), the episodes of the last collect
    loop_i,                 \* i of "for i in range(len(new_data))"
    written,                \* the numbers n of the episode_<n> directories written
    pc                      \* main's position: "idle" (not running), "while",
                            \* "for", "done"

policy_vars == <<_cfg, target_speed, _max_brake, _max_throttle, _max_steer,
                 _ignore_traffic_light, _lateral_dict, _longitudinal_dict,
                 _controller_dict, _last_steer_dict, ret, normal_steer>>

main_vars == <<episode_nums, collected_episodes, new_data, loop_i, written, pc>>

vars == <<policy_vars, main_vars>>

(***************************************************************************)
(* Bounds and input sets                                                   *)
(***************************************************************************)
\* the controllers in use have been invoked at most MaxCalls times in all
MaxCalls == 2

\* cfg.episode_nums is at most MaxEpisodeNums, and a collect returns at most
\* MaxNewData episodes
MaxEpisodeNums == 4

MaxNewData == 3

\* env ids ("data id")
Ids == {0, 1}

(***************************************************************************)
(* Module constants of auto_policy.py                                      *)
(***************************************************************************)
DEFAULT_LATERAL_DICT == [K_P |-> 1000, K_D |-> 100, K_I |-> 0, dt |-> 100]
DEFAULT_LONGITUDINAL_DICT == [K_P |-> 1000, K_D |-> 0, K_I |-> 50, dt |-> 100]
DEFAULT_LAT_HW_DICT == [K_P |-> 750, K_D |-> 10, K_I |-> 200, dt |-> 100]
DEFAULT_LAT_CITY_DICT == [K_P |-> 580, K_D |-> 10, K_I |-> 250, dt |-> 100]
DEFAULT_LONG_HW_DICT == [K_P |-> 370, K_D |-> 12, K_I |-> 16, dt |-> 100]
DEFAULT_LONG_CITY_DICT == [K_P |-> 150, K_D |-> 25, K_I |-> 35, dt |-> 100]

\* a gain dict is held by name; "None" is Python's None
GainDict(name) ==
    CASE name = "DEFAULT_LATERAL_DICT" -> DEFAULT_LATERAL_DICT
      [] name = "DEFAULT_LONGITUDINAL_DICT" -> DEFAULT_LONGITUDINAL_DICT
      [] name = "DEFAULT_LAT_HW_DICT" -> DEFAULT_LAT_HW_DICT
      [] name = "DEFAULT_LAT_CITY_DICT" -> DEFAULT_LAT_CITY_DICT
      [] name = "DEFAULT_LONG_HW_DICT" -> DEFAULT_LONG_HW_DICT
      [] name = "DEFAULT_LONG_CITY_DICT" -> DEFAULT_LONG_CITY_DICT

\* AutoPolicy.config, the default configuration
config ==
    [target_speed |-> 25, max_brake |-> 30, max_throttle |-> 75,
     max_steer |-> 80, ignore_light |-> FALSE,
     lateral_dict |-> "DEFAULT_LATERAL_DICT",
     longitudinal_dict |-> "DEFAULT_LONGITUDINAL_DICT",
     noise |-> FALSE]

\* the configurations a policy is constructed with
Configs ==
    { config,
      [config EXCEPT !.noise = TRUE],
      [config EXCEPT !.lateral_dict = "None", !.longitudinal_dict = "None",
                     !.target_speed = 50, !.ignore_light = TRUE],
      [config EXCEPT !.lateral_dict = "None", !.longitudinal_dict = "None",
                     !.target_speed = 60],
      [config EXCEPT !.lateral_dict = "None"] }

\* thresholds of _forward
HIGHWAY_SPEED == 50
TL_DIS_STOP == 10
CURVE_STEER == 10
CURVE_SPEED == 15
CURVE_THROTTLE == 30
\* noise_kwargs of _reset
NOISE_LOW == -30
NOISE_HIGH == 30

(***************************************************************************)
(* Python dict operations                                                  *)
(***************************************************************************)
EmptyDict == [i \in {} |-> 0]

DictPop(d, k) == [i \in (DOMAIN d) \ {k} |-> d[i]]

DictSet(d, k, v) == [i \in (DOMAIN d) \cup {k} |-> IF i = k THEN v ELSE d[i]]

Min(a, b) == IF a <= b THEN a ELSE b

Max(a, b) == IF a >= b THEN a ELSE b

(***************************************************************************)
(* Collaborators from core.models: VehiclePIDController, SteerNoiseWrapper *)
(***************************************************************************)
\* integer division rounding toward zero
Trunc(n, d) == IF n >= 0 THEN n \div d ELSE -((-n) \div d)

\* one PID loop: state st = [sum, prev] of past errors, error e in hundredths;
\* out = K_P*e + K_D*(e - prev)/dt + K_I*sum*dt, in hundredths
PIDRunStep(g, st, e) ==
    LET sum == st.sum + e
        de == e - st.prev
    IN  [out |-> Trunc(g.K_P * e, 1000) + Trunc(g.K_D * de, g.dt)
                   + Trunc(g.K_I * sum * g.dt, 1000000),
         st |-> [sum |-> sum, prev |-> e]]

\* a newly constructed controller: no accumulated error, never invoked
VehiclePIDController(args_lateral, args_longitudinal, max_throttle, max_brake, max_steering) ==
    [kind |-> "VehiclePIDController",
     args_lateral |-> args_lateral,
     args_longitudinal |-> args_longitudinal,
     max_throttle |-> max_throttle,
     max_brake |-> max_brake,
     max_steering |-> max_steering,
     lat |-> [sum |-> 0, prev |-> 0],
     lon |-> [sum |-> 0, prev |-> 0],
     calls |-> 0]

\* the wrapper composes over the controller it decorates
SteerNoiseWrapper(model, noise_type, low, high) ==
    [kind |-> "SteerNoiseWrapper", model |-> model, noise_type |-> noise_type,
     low |-> low, high |-> high]

IsNoisy(c) == c.kind = "SteerNoiseWrapper"

\* the VehiclePIDController that serves c
BaseController(c) == IF IsNoisy(c) THEN c.model ELSE c

\* VehiclePIDController.forward: independent longitudinal and lateral loops,
\* the command clamped to the controller's limits
PIDForward(c, current_speed, current_location, current_orientation, tgt_speed, target_location) ==
    LET lon == PIDRunStep(GainDict(c.args_longitudinal), c.lon,
                          100 * (tgt_speed - current_speed))
        lat == PIDRunStep(GainDict(c.args_lateral), c.lat,
                          target_location - current_location)
    IN  [control |->
            [steer |-> Max(-c.max_steering, Min(c.max_steering, lat.out)),
             throttle |-> IF lon.out >= 0 THEN Min(lon.out, c.max_throttle)
                          ELSE 0,
             brake |-> IF lon.out >= 0 THEN 0
                       ELSE Min(-lon.out, c.max_brake)],
         controller |-> [c EXCEPT !.lat = lat.st, !.lon = lon.st,
                                  !.calls = c.calls + 1]]

\* controller.forward for either kind; n is the offset the wrapper draws
ControllerForward(c, current_speed, current_location, current_orientation, tgt_speed, target_location, n) ==
    IF IsNoisy(c)
    THEN LET r == PIDForward(c.model, current_speed, current_location,
                             current_orientation, tgt_speed, target_location)
         IN  [control |-> [r.control EXCEPT !.steer = r.control.steer + n],
              controller |-> [c EXCEPT !.model = r.controller]]
    ELSE PIDForward(c, current_speed, current_location, current_orientation,
                    tgt_speed, target_location)

(***************************************************************************)
(* AutoPolicy: the policy object as a record, and its private methods      *)
(***************************************************************************)
Self ==
    [_cfg |-> _cfg, target_speed |-> target_speed, _max_brake |-> _max_brake,
     _max_throttle |-> _max_throttle, _max_steer |-> _max_steer,
     _ignore_traffic_light |-> _ignore_traffic_light,
     _lateral_dict |-> _lateral_dict, _longitudinal_dict |-> _longitudinal_dict,
     _controller_dict |-> _controller_dict,
     _last_steer_dict |-> _last_steer_dict]

\* the policy's fields become those of the record s
Store(s) ==
    /\ _cfg' = s._cfg
    /\ target_speed' = s.target_speed
    /\ _max_brake' = s._max_brake
    /\ _max_throttle' = s._max_throttle
    /\ _max_steer' = s._max_steer
    /\ _ignore_traffic_light' = s._ignore_traffic_light
    /\ _lateral_dict' = s._lateral_dict
    /\ _longitudinal_dict' = s._longitudinal_dict
    /\ _controller_dict' = s._controller_dict
    /\ _last_steer_dict' = s._last_steer_dict

\* _init without line 64
_init_keep_steer(self) ==
    [self EXCEPT
        !.target_speed = self._cfg.target_speed,
        !._max_brake = self._cfg.max_brake,
        !._max_throttle = self._cfg.max_throttle,
        !._max_steer = self._cfg.max_steer,
        !._ignore_traffic_light = self._cfg.ignore_light,
        !._lateral_dict = self._cfg.lateral_dict,
        !._longitudinal_dict = self._cfg.longitudinal_dict,
        !._controller_dict = EmptyDict]

_init(self) ==
    [self EXCEPT
        !.target_speed = self._cfg.target_speed,
        !._max_brake = self._cfg.max_brake,
        !._max_throttle = self._cfg.max_throttle,
        !._max_steer = self._cfg.max_steer,
        !._ignore_traffic_light = self._cfg.ignore_light,
        !._lateral_dict = self._cfg.lateral_dict,
        !._longitudinal_dict = self._cfg.longitudinal_dict,
        !._controller_dict = EmptyDict,
        !._last_steer_dict = EmptyDict]

\* AutoPolicy.__init__: both dicts are created once, then _init_<field>()
\* runs for each of the two fields on the same object
Construct(cfg) ==
    LET s0 == [_cfg |-> cfg, target_speed |-> 0, _max_brake |-> 0,
               _max_throttle |-> 0, _max_steer |-> 0,
               _ignore_traffic_light |-> FALSE, _lateral_dict |-> "None",
               _longitudinal_dict |-> "None", _controller_dict |-> EmptyDict,
               _last_steer_dict |-> EmptyDict]
    IN  _init(_init(s0))

\* the lateral preset chosen with >= in place of > (line 73)
ResolveLateral_inclusive(self) ==
    IF self._lateral_dict = "None"
    THEN IF self.target_speed >= HIGHWAY_SPEED THEN "DEFAULT_LAT_HW_DICT"
         ELSE "DEFAULT_LAT_CITY_DICT"
    ELSE self._lateral_dict

\* lines 72-81: an unset gain dict is replaced by a preset
ResolveLateral(self) ==
    IF self._lateral_dict = "None"
    THEN IF self.target_speed > HIGHWAY_SPEED THEN "DEFAULT_LAT_HW_DICT"
         ELSE "DEFAULT_LAT_CITY_DICT"
    ELSE self._lateral_dict

ResolveLongitudinal(self) ==
    IF self._longitudinal_dict = "None"
    THEN IF self.target_speed > HIGHWAY_SPEED THEN "DEFAULT_LONG_HW_DICT"
         ELSE "DEFAULT_LONG_CITY_DICT"
    ELSE self._longitudinal_dict

\* _reset that sets the last steer only for an id it has not seen
_reset_keep_steer(self, data_id, noise) ==
    LET popped == IF data_id \in DOMAIN self._controller_dict
                  THEN DictPop(self._controller_dict, data_id)
                  ELSE self._controller_dict
        lateral == ResolveLateral(self)
        longitudinal == ResolveLongitudinal(self)
        controller == VehiclePIDController(lateral, longitudinal,
                          self._max_throttle, self._max_brake, self._max_steer)
        stored == IF noise
                  THEN SteerNoiseWrapper(controller, "uniform", NOISE_LOW,
                                         NOISE_HIGH)
                  ELSE controller
    IN  [self EXCEPT
            !._lateral_dict = lateral,
            !._longitudinal_dict = longitudinal,
            !._controller_dict = DictSet(popped, data_id, stored),
            !._last_steer_dict =
                IF data_id \in DOMAIN self._last_steer_dict
                THEN self._last_steer_dict
                ELSE DictSet(self._last_steer_dict, data_id, 0)]

\* _reset without line 102
_reset_no_last_steer(self, data_id, noise) ==
    LET popped == IF data_id \in DOMAIN self._controller_dict
                  THEN DictPop(self._controller_dict, data_id)
                  ELSE self._controller_dict
        lateral == ResolveLateral(self)
        longitudinal == ResolveLongitudinal(self)
        controller == VehiclePIDController(lateral, longitudinal,
                          self._max_throttle, self._max_brake, self._max_steer)
        stored == IF noise
                  THEN SteerNoiseWrapper(controller, "uniform", NOISE_LOW,
                                         NOISE_HIGH)
                  ELSE controller
    IN  [self EXCEPT
            !._lateral_dict = lateral,
            !._longitudinal_dict = longitudinal,
            !._controller_dict = DictSet(popped, data_id, stored)]

_reset(self, data_id, noise) ==
    LET popped == IF data_id \in DOMAIN self._controller_dict
                  THEN DictPop(self._controller_dict, data_id)
                  ELSE self._controller_dict
        lateral == ResolveLateral(self)
        longitudinal == ResolveLongitudinal(self)
        controller == VehiclePIDController(lateral, longitudinal,
                          self._max_throttle, self._max_brake, self._max_steer)
        stored == IF noise
                  THEN SteerNoiseWrapper(controller, "uniform", NOISE_LOW,
                                         NOISE_HIGH)
                  ELSE controller
    IN  [self EXCEPT
            !._lateral_dict = lateral,
            !._longitudinal_dict = longitudinal,
            !._controller_dict = DictSet(popped, data_id, stored),
            !._last_steer_dict = DictSet(self._last_steer_dict, data_id, 0)]

\* _emergency_stop that straightens the wheel
_emergency_stop_straight(self, data_id) ==
    [steer |-> 0, throttle |-> 0, brake |-> 100]

_emergency_stop(self, data_id) ==
    [steer |-> self._last_steer_dict[data_id], throttle |-> 0, brake |-> 100]

\* the branch taken when the traffic-light checks do not consult
\* self._ignore_traffic_light
ForwardBranch_no_ignore(self, obs) ==
    IF obs.command = -1 THEN "emergency"
    ELSE IF obs.agent_state = 2 \/ obs.agent_state = 3 THEN "emergency"
    ELSE IF obs.agent_state = 4 THEN "emergency"
    ELSE IF obs.tl_state = 0 /\ obs.tl_dis < TL_DIS_STOP THEN "emergency"
    ELSE "normal"

\* the branch _forward takes for obs: lines 106-114
ForwardBranch(self, obs) ==
    IF obs.command = -1 THEN "emergency"
    ELSE IF obs.agent_state = 2 \/ obs.agent_state = 3 THEN "emergency"
    ELSE IF ~self._ignore_traffic_light /\ obs.agent_state = 4 THEN "emergency"
    ELSE IF ~self._ignore_traffic_light /\ obs.tl_state = 0
            /\ obs.tl_dis < TL_DIS_STOP
         THEN "emergency"
    ELSE "normal"

\* line 127: abs(control['steer'] > 0.1 and current_speed > 15); abs of a
\* bool is 1 for True and 0 for False, so abs changes nothing
CurveCondition(steer, current_speed) ==
    steer > CURVE_STEER /\ current_speed > CURVE_SPEED

\* target speed that leaves the posted speed limit out
TargetSpeed_ignores_limit(self, obs) ==
    self.target_speed

\* line 119: the target speed handed to the controller
TargetSpeed(self, obs) ==
    Min(self.target_speed, obs.speed_limit)

\* normal tracking that keeps one last steer for all ids
NormalTracking_shared_steer(self, data_id, obs, n) ==
    LET controller == self._controller_dict[data_id]
        tgt_speed == TargetSpeed(self, obs)
        r == ControllerForward(controller, obs.speed, obs.location,
                               obs.orientation, tgt_speed, obs.target, n)
        control == IF CurveCondition(r.control.steer, obs.speed)
                   THEN [r.control EXCEPT
                            !.throttle = Min(r.control.throttle, CURVE_THROTTLE)]
                   ELSE r.control
    IN  [control |-> control, target_speed |-> tgt_speed,
         self |-> [self EXCEPT
                     !._controller_dict[data_id] = r.controller,
                     !._last_steer_dict =
                         [j \in DOMAIN self._last_steer_dict |-> control.steer]]]

\* lines 115-129, the else branch
NormalTracking(self, data_id, obs, n) ==
    LET controller == self._controller_dict[data_id]
        tgt_speed == TargetSpeed(self, obs)
        r == ControllerForward(controller, obs.speed, obs.location,
                               obs.orientation, tgt_speed, obs.target, n)
        control == IF CurveCondition(r.control.steer, obs.speed)
                   THEN [r.control EXCEPT
                            !.throttle = Min(r.control.throttle, CURVE_THROTTLE)]
                   ELSE r.control
    IN  [control |-> control, target_speed |-> tgt_speed,
         self |-> [self EXCEPT
                     !._controller_dict[data_id] = r.controller,
                     !._last_steer_dict[data_id] = control.steer]]

NoControl == [steer |-> 0, throttle |-> 0, brake |-> 0]

\* _forward whose emergency branch also clears the last steer
_forward_emergency_clears(self, data_id, obs, n) ==
    IF data_id \notin DOMAIN self._controller_dict
    THEN [raised |-> "KeyError", branch |-> "none", control |-> NoControl,
          target_speed |-> -1, self |-> self]
    ELSE IF ForwardBranch(self, obs) = "emergency"
    THEN [raised |-> "no", branch |-> "emergency",
          control |-> _emergency_stop(self, data_id), target_speed |-> -1,
          self |-> [self EXCEPT !._last_steer_dict[data_id] = 0]]
    ELSE LET r == NormalTracking(self, data_id, obs, n)
         IN  [raised |-> "no", branch |-> "normal", control |-> r.control,
              target_speed |-> r.target_speed, self |-> r.self]

\* _forward that resets an id it finds no controller for
_forward_autoreset(self, data_id, obs, n) ==
    LET s == IF data_id \notin DOMAIN self._controller_dict
             THEN _reset(self, data_id, FALSE)
             ELSE self
    IN  IF ForwardBranch(s, obs) = "emergency"
        THEN [raised |-> "no", branch |-> "emergency",
              control |-> _emergency_stop(s, data_id), target_speed |-> -1,
              self |-> s]
        ELSE LET r == NormalTracking(s, data_id, obs, n)
             IN  [raised |-> "no", branch |-> "normal", control |-> r.control,
                  target_speed |-> r.target_speed, self |-> r.self]

\* _forward: raised is "KeyError" when line 105 finds no controller, else
\* "no"; branch is the branch taken; target_speed is the target speed handed
\* to the controller (-1 when the controller is not invoked); n is the noise
\* a wrapper would draw
_forward(self, data_id, obs, n) ==
    IF data_id \notin DOMAIN self._controller_dict
    THEN [raised |-> "KeyError", branch |-> "none", control |-> NoControl,
          target_speed |-> -1, self |-> self]
    ELSE IF ForwardBranch(self, obs) = "emergency"
    THEN [raised |-> "no", branch |-> "emergency",
          control |-> _emergency_stop(self, data_id), target_speed |-> -1,
          self |-> self]
    ELSE LET r == NormalTracking(self, data_id, obs, n)
         IN  [raised |-> "no", branch |-> "normal", control |-> r.control,
              target_speed |-> r.target_speed, self |-> r.self]

(***************************************************************************)
(* Inputs: observations and batches                                        *)
(***************************************************************************)
\* (command, agent_state, tl_state, tl_dis): command -1 is "no route";
\* agent_state 2/3 collided/blocked, 4 ran a red light; tl_state 0 is red
FlagsClear == [command |-> 4, agent_state |-> 1, tl_state |-> 2, tl_dis |-> 50]

FlagsSet ==
    { FlagsClear,
      [FlagsClear EXCEPT !.command = -1],
      [FlagsClear EXCEPT !.agent_state = 2],
      [FlagsClear EXCEPT !.agent_state = 3],
      [FlagsClear EXCEPT !.agent_state = 4],
      [FlagsClear EXCEPT !.tl_state = 0, !.tl_dis = 5],
      [FlagsClear EXCEPT !.tl_state = 0, !.tl_dis = 10] }

\* (speed, location, orientation, target, speed_limit)
KinLeftFast == [speed |-> 20, location |-> 0, orientation |-> 0, target |-> -20, speed_limit |-> 30]

KinRightFast == [speed |-> 20, location |-> 0, orientation |-> 0, target |-> 60, speed_limit |-> 30]

KinOverLimit == [speed |-> 30, location |-> 0, orientation |-> 0, target |-> 5, speed_limit |-> 20]

KinSet == {KinLeftFast, KinRightFast, KinOverLimit}

Obs(f, k) ==
    [command |-> f.command, agent_state |-> f.agent_state,
     tl_state |-> f.tl_state, tl_dis |-> f.tl_dis, speed |-> k.speed,
     location |-> k.location, orientation |-> k.orientation,
     target |-> k.target, speed_limit |-> k.speed_limit]

\* every observation offered to env 0 alone
ObsSet ==
    {Obs(FlagsClear, k) : k \in KinSet}
        \cup {Obs(f, KinLeftFast) : f \in FlagsSet}

\* the observations offered to env 1, and to both envs of a two-id batch
PairObsSet ==
    { Obs(FlagsClear, KinLeftFast),
      Obs([FlagsClear EXCEPT !.tl_state = 0, !.tl_dis = 5], KinLeftFast) }

\* a batch is the dict data in key order: a sequence of [id, obs]
Batches ==
    {<<[id |-> 0, obs |-> o]>> : o \in ObsSet}
        \cup {<<[id |-> 1, obs |-> o]>> : o \in PairObsSet}
        \cup {b \in {<<[id |-> i, obs |-> o], [id |-> j, obs |-> q]>> :
                        i \in Ids, j \in Ids, o \in PairObsSet, q \in PairObsSet} :
                 b[1].id # b[2].id}

\* the data_id lists reset is called with
IdLists == {<<0>>, <<1>>, <<0, 1>>}

\* the offsets a noise wrapper draws from [low, high]
NoiseSet == {NOISE_LOW, NOISE_HIGH}

SeqIds(data) == {data[k].id : k \in 1..Len(data)}

(***************************************************************************)
(* The loops of the mode interfaces                                        *)
(***************************************************************************)
\* lines 166-169 / 184-187 from position k on: acc is [self, actions, trace,
\* status]; the first KeyError ends the loop and the call
RECURSIVE ForwardLoop(_, _, _, _)
ForwardLoop(acc, data, nz, k) ==
    IF k > Len(data) THEN acc
    ELSE LET i == data[k].id
             r == _forward(acc.self, i, data[k].obs, nz[i])
         IN  IF r.raised = "KeyError"
             THEN [acc EXCEPT !.status = "KeyError", !.actions = EmptyDict]
             ELSE ForwardLoop(
                      [self |-> r.self,
                       actions |-> DictSet(acc.actions, i, r.control),
                       trace |-> Append(acc.trace,
                                    [id |-> i, branch |-> r.branch,
                                     control |-> r.control,
                                     target_speed |-> r.target_speed]),
                       status |-> "ok"],
                      data, nz, k + 1)

RunForward(self, data, nz) ==
    ForwardLoop([self |-> self, actions |-> EmptyDict, trace |-> <<>>,
                 status |-> "ok"], data, nz, 1)

\* lines 198-199 / 214-215: _reset for each id of the list, in order
RECURSIVE ResetLoop(_, _, _, _)
ResetLoop(self, ids, noise, k) ==
    IF k > Len(ids) THEN self
    ELSE ResetLoop(_reset(self, ids[k], noise), ids, noise, k + 1)

\* _reset for each id of the set R
RECURSIVE ResetEach(_, _, _)
ResetEach(self, R, noise) ==
    IF R = {} THEN self
    ELSE LET i == CHOOSE x \in R : TRUE
         IN  ResetEach(_reset(self, i, noise), R \ {i}, noise)

\* lines 201-202 / 217-218: "for id in self._controller_dict: self._reset(id)"
\* pops and re-inserts keys of the dict being iterated.  What CPython's dict
\* iterator then does depends on the dict's internal layout: it visits a
\* non-empty part of the keys (some possibly more than once, which resets
\* them again to the same), and ends normally or raises RuntimeError
\* ("dictionary keys changed during iteration").  An empty dict is left alone.
ResetAllOutcomes(self, noise) ==
    IF DOMAIN self._controller_dict = {}
    THEN {[self |-> self, visited |-> {}, status |-> "ok"]}
    ELSE {[self |-> ResetEach(self, R, noise), visited |-> R, status |-> st] :
            R \in (SUBSET DOMAIN self._controller_dict) \ {{}},
            st \in {"ok", "RuntimeError"}}

(***************************************************************************)
(* State machine: construction and the public calls of the two modes       *)
(***************************************************************************)
NoHistory == [i \in Ids |-> <<>>]

\* the record of a public call: op and mode; the arguments (data of forward,
\* ids of reset, all when reset is given no list); tracked, the ids that had
\* a controller when the call was made; the outcome: status ("ok" or the
\* exception raised), the actions returned, the _forward calls completed
\* (trace) and the ids _reset ran for (visited)
Call(op, mode) ==
    [op |-> op, mode |-> mode, data |-> <<>>, ids |-> <<>>, all |-> FALSE,
     tracked |-> DOMAIN _controller_dict,
     status |-> "ok", actions |-> EmptyDict, trace |-> <<>>, visited |-> {}]

\* the policy after AutoPolicy(cfg)
Constructed(cfg) ==
    LET s == Construct(cfg)
    IN  /\ _cfg = s._cfg
        /\ target_speed = s.target_speed
        /\ _max_brake = s._max_brake
        /\ _max_throttle = s._max_throttle
        /\ _max_steer = s._max_steer
        /\ _ignore_traffic_light = s._ignore_traffic_light
        /\ _lateral_dict = s._lateral_dict
        /\ _longitudinal_dict = s._longitudinal_dict
        /\ _controller_dict = s._controller_dict
        /\ _last_steer_dict = s._last_steer_dict
        /\ ret = [op |-> "construct", mode |-> "none", data |-> <<>>,
                  ids |-> <<>>, all |-> FALSE, tracked |-> {},
                  status |-> "ok", actions |-> EmptyDict, trace |-> <<>>,
                  visited |-> {}]
        /\ normal_steer = NoHistory

\* main at line 113 with cfg.episode_nums = n
MainStarts(n, at) ==
    /\ episode_nums = n
    /\ collected_episodes = 0
    /\ new_data = 0
    /\ loop_i = 0
    /\ written = {}
    /\ pc = at

\* a policy on its own: main is not running
Init ==
    \E cfg \in Configs : Constructed(cfg) /\ MainStarts(0, "idle")

_init_collect ==
    /\ \E s \in {_init(Self)} : Store(s)
    /\ ret' = Call("init", "collect")
    /\ normal_steer' = NoHistory
    /\ UNCHANGED main_vars

_init_eval ==
    /\ \E s \in {_init(Self)} : Store(s)
    /\ ret' = Call("init", "eval")
    /\ normal_steer' = NoHistory
    /\ UNCHANGED main_vars

\* the history after a reset of the ids in R
HistoryAfterReset(R) == [i \in Ids |-> IF i \in R THEN <<>> ELSE normal_steer[i]]

\* the history after the _forward calls of trace, in order
RECURSIVE HistoryAfterForward(_, _, _)
HistoryAfterForward(h, trace, k) ==
    IF k > Len(trace) THEN h
    ELSE HistoryAfterForward(
             IF trace[k].branch = "normal"
             THEN [h EXCEPT ![trace[k].id] = <<trace[k].control.steer>>]
             ELSE h,
             trace, k + 1)

ResetList(mode, noise, ids) ==
    /\ \E s \in {ResetLoop(Self, ids, noise, 1)} : Store(s)
    /\ ret' = [Call("reset", mode) EXCEPT !.ids = ids, !.visited = {ids[k] : k \in 1..Len(ids)}]
    /\ normal_steer' = HistoryAfterReset({ids[k] : k \in 1..Len(ids)})
    /\ UNCHANGED main_vars

ResetAll(mode, noise) ==
    \E o \in ResetAllOutcomes(Self, noise) :
        /\ Store(o.self)
        /\ ret' = [Call("reset", mode) EXCEPT !.all = TRUE, !.visited = o.visited, !.status = o.status]
        /\ normal_steer' = HistoryAfterReset(o.visited)
        /\ UNCHANGED main_vars

_reset_eval ==
    \/ \E data_id \in IdLists : ResetList("eval", FALSE, data_id)
    \/ ResetAll("eval", FALSE)

_reset_collect ==
    \/ \E data_id \in IdLists : ResetList("collect", _cfg.noise, data_id)
    \/ ResetAll("collect", _cfg.noise)

\* the ids of data whose _forward draws a noise offset
DrawsNoise(self, data) ==
    {i \in SeqIds(data) \cap DOMAIN self._controller_dict :
        IsNoisy(self._controller_dict[i])}

\* invocations of the controllers of dict d
RECURSIVE TotalCalls(_, _)
TotalCalls(d, R) ==
    IF R = {} THEN 0
    ELSE LET i == CHOOSE x \in R : TRUE
         IN  BaseController(d[i]).calls + TotalCalls(d, R \ {i})

\* nz[i] is the offset the wrapper of id i draws in this call (NoDraw for an
\* id whose _forward draws none)
NoDraw == CHOOSE n \in NoiseSet : TRUE

Forward(mode, data) ==
    \E nz \in [Ids -> NoiseSet] :
        /\ \A i \in Ids \ DrawsNoise(Self, data) : nz[i] = NoDraw
        /\ \E r \in {RunForward(Self, data, nz)} :
            /\ TotalCalls(r.self._controller_dict, DOMAIN r.self._controller_dict) <= MaxCalls
            /\ Store(r.self)
            /\ ret' = [Call("forward", mode) EXCEPT !.data = data, !.status = r.status, !.actions = r.actions, !.trace = r.trace]
            /\ normal_steer' = HistoryAfterForward(normal_steer, r.trace, 1)
            /\ UNCHANGED main_vars

_forward_eval == \E data \in Batches : Forward("eval", data)

_forward_collect == \E data \in Batches : Forward("collect", data)

Next ==
    \/ _init_collect
    \/ _init_eval
    \/ _reset_eval
    \/ _reset_collect
    \/ _forward_eval
    \/ _forward_collect

Spec == Init /\ [][Next]_vars

(***************************************************************************)
(* main of demo/implicit/collect_data.py: the episode loop, lines 113-126  *)
(***************************************************************************)
\* line 115 holds: line 118, collector.collect returns some episodes
Collect ==
    /\ pc = "while"
    /\ collected_episodes < episode_nums
    /\ \E n \in 0..MaxNewData : new_data' = n
    /\ loop_i' = 0
    /\ pc' = "for"
    /\ UNCHANGED <<episode_nums, collected_episodes, written>>
    /\ UNCHANGED policy_vars

\* lines 119-126, one pass of the for body: count the episode, write its
\* directory, then break when the count is above cfg.episode_nums
WriteEpisode ==
    /\ pc = "for"
    /\ loop_i < new_data
    /\ collected_episodes' = collected_episodes + 1
    /\ written' = written \cup {collected_episodes + 1}
    /\ IF collected_episodes + 1 > episode_nums
       THEN pc' = "while" /\ loop_i' = loop_i
       ELSE pc' = "for" /\ loop_i' = loop_i + 1
    /\ UNCHANGED <<episode_nums, new_data>>
    /\ UNCHANGED policy_vars

\* line 119: range(len(new_data)) is exhausted
ForEnds ==
    /\ pc = "for"
    /\ loop_i >= new_data
    /\ pc' = "while"
    /\ UNCHANGED <<episode_nums, collected_episodes, new_data, loop_i, written>>
    /\ UNCHANGED policy_vars

\* line 115 fails: the loop is left for line 128
WhileEnds ==
    /\ pc = "while"
    /\ ~(collected_episodes < episode_nums)
    /\ pc' = "done"
    /\ UNCHANGED <<episode_nums, collected_episodes, new_data, loop_i, written>>
    /\ UNCHANGED policy_vars

\* main at line 113: the policy of line 106 constructed, nothing collected
MainInit ==
    \E n \in 0..MaxEpisodeNums : Constructed(config) /\ MainStarts(n, "while")

MainNext ==
    \/ Collect
    \/ WriteEpisode
    \/ ForEnds
    \/ WhileEnds

MainSpec == MainInit /\ [][MainNext]_vars

(***************************************************************************)
(* Vocabulary of the properties                                            *)
(***************************************************************************)
\* the four emergency conditions, read off the observation and the
\* configured ignore_light
IsEmergency(o) ==
    \/ o.command = -1
    \/ o.agent_state \in {2, 3}
    \/ ~_cfg.ignore_light /\ o.agent_state = 4
    \/ ~_cfg.ignore_light /\ o.tl_state = 0 /\ o.tl_dis < 10

\* the steer of the last non-emergency forward of id i since its last reset,
\* or 0 when there has been none
RecordedSteer(i) == IF normal_steer[i] = <<>> THEN 0 ELSE normal_steer[i][1]

\* a controller as constructed: never invoked, no accumulated error
IsFresh(c) ==
    /\ BaseController(c).calls = 0
    /\ BaseController(c).lat = [sum |-> 0, prev |-> 0]
    /\ BaseController(c).lon = [sum |-> 0, prev |-> 0]

Abs(x) == IF x >= 0 THEN x ELSE -x

\* the positions of the batch whose _forward call completed
Served(r) == 1..Len(r.trace)

(***************************************************************************)
(* C1: an emergency observation yields throttle 0, brake 1.0 and the steer *)
(* of the id's most recent non-emergency forward since its last reset (0   *)
(* when there is none).                                                    *)
(***************************************************************************)
C1_EmergencyStop ==
    (ret.op = "forward" /\ ret.status = "ok") =>
        \A k \in 1..Len(ret.data) :
            IsEmergency(ret.data[k].obs) =>
                /\ ret.actions[ret.data[k].id].throttle = 0
                /\ ret.actions[ret.data[k].id].brake = 100
                /\ ret.actions[ret.data[k].id].steer = RecordedSteer(ret.data[k].id)

\* an emergency stop that holds a non-zero steer recorded earlier
C1_Witness ==
    /\ ret.op = "forward" /\ ret.status = "ok"
    /\ \E k \in 1..Len(ret.data) :
           /\ IsEmergency(ret.data[k].obs)
           /\ normal_steer[ret.data[k].id] # <<>>
           /\ ret.actions[ret.data[k].id].steer # 0
           /\ ret.actions[ret.data[k].id].brake = 100

(***************************************************************************)
(* C2: mode isolation: no call made through one mode changes the          *)
(* controllers or the last-steer values the other mode uses.  Both modes   *)
(* read and write self._controller_dict and self._last_steer_dict.         *)
(***************************************************************************)
EvalModeState == <<_controller_dict, _last_steer_dict>>

CollectModeState == <<_controller_dict, _last_steer_dict>>

C2_ModeIsolation ==
    [][/\ (ret'.op \in {"init", "reset", "forward"} /\ ret'.mode = "collect")
            => EvalModeState' = EvalModeState
       /\ (ret'.op \in {"init", "reset", "forward"} /\ ret'.mode = "eval")
            => CollectModeState' = CollectModeState]_vars

(***************************************************************************)
(* C3: on the normal-tracking path, steer magnitude above 0.1 together     *)
(* with speed above 15 caps the throttle at 0.3.                           *)
(***************************************************************************)
C3_CurveSpeedLimit ==
    (ret.op = "forward" /\ ret.status = "ok") =>
        \A k \in 1..Len(ret.data) :
            (/\ ~IsEmergency(ret.data[k].obs)
             /\ Abs(ret.actions[ret.data[k].id].steer) > 10
             /\ ret.data[k].obs.speed > 15)
                => ret.actions[ret.data[k].id].throttle <= 30

(***************************************************************************)
(* C4: a reset leaves each id it ran for with a controller as constructed  *)
(* and last steer 0; the last steer of an id stays 0 while no              *)
(* non-emergency forward has followed its reset, and a forward for such an *)
(* id (an emergency stop) returns steer 0.                                 *)
(***************************************************************************)
C4_ResetIsolates ==
    [][/\ ret'.op = "reset" =>
            \A i \in ret'.visited :
                /\ i \in DOMAIN _controller_dict'
                /\ IsFresh(_controller_dict'[i])
                /\ _last_steer_dict'[i] = 0
       /\ \A i \in DOMAIN _last_steer_dict' :
            normal_steer'[i] = <<>> => _last_steer_dict'[i] = 0
       /\ (ret'.op = "forward" /\ ret'.status = "ok") =>
            \A i \in DOMAIN ret'.actions :
                normal_steer'[i] = <<>> => ret'.actions[i].steer = 0]_vars

\* a reset has replaced the controller of an id that had one
C4_Witness ==
    /\ ret.op = "reset"
    /\ \E i \in ret.visited \cap ret.tracked :
           /\ IsFresh(_controller_dict[i])
           /\ _last_steer_dict[i] = 0
           /\ normal_steer[i] = <<>>

(***************************************************************************)
(* C5: an emergency-stop forward for an id leaves the id's controller and  *)
(* last steer as they were and returns that last steer; a forward call     *)
(* changes the last steer of no id other than those it tracked normally,   *)
(* and adds or removes no id.                                              *)
(***************************************************************************)
C5_EmergencyFrame ==
    [][ret'.op = "forward" =>
        /\ \A k \in Served(ret') :
             IsEmergency(ret'.data[k].obs) =>
                /\ _controller_dict'[ret'.data[k].id] = _controller_dict[ret'.data[k].id]
                /\ _last_steer_dict'[ret'.data[k].id] = _last_steer_dict[ret'.data[k].id]
                /\ ret'.trace[k].control.steer = _last_steer_dict[ret'.data[k].id]
        /\ \A i \in DOMAIN _last_steer_dict :
             (\A k \in Served(ret') :
                 ret'.data[k].id = i => IsEmergency(ret'.data[k].obs))
                => /\ i \in DOMAIN _last_steer_dict'
                   /\ _last_steer_dict'[i] = _last_steer_dict[i]
                   /\ _controller_dict'[i] = _controller_dict[i]
        /\ DOMAIN _controller_dict' = DOMAIN _controller_dict
        /\ DOMAIN _last_steer_dict' = DOMAIN _last_steer_dict]_vars

\* an emergency frame for an id whose controller has accumulated error and
\* whose last steer is not 0
C5_Witness ==
    /\ ret.op = "forward" /\ ret.status = "ok" /\ Len(ret.data) = 1
    /\ IsEmergency(ret.data[1].obs)
    /\ BaseController(_controller_dict[ret.data[1].id]).calls > 0
    /\ _last_steer_dict[ret.data[1].id] # 0
    /\ ret.actions[ret.data[1].id].steer = _last_steer_dict[ret.data[1].id]

(***************************************************************************)
(* C6: an observation that meets none of the four emergency conditions is  *)
(* tracked normally: the id's controller is invoked exactly once and the   *)
(* id's last steer becomes the steer of the command returned.              *)
(***************************************************************************)
C6_NormalPath ==
    [][ret'.op = "forward" =>
        \A k \in Served(ret') :
            ~IsEmergency(ret'.data[k].obs) =>
                /\ BaseController(_controller_dict'[ret'.data[k].id]).calls
                     = BaseController(_controller_dict[ret'.data[k].id]).calls + 1
                /\ _last_steer_dict'[ret'.data[k].id] = ret'.trace[k].control.steer
                /\ ret'.status = "ok" =>
                     ret'.actions[ret'.data[k].id] = ret'.trace[k].control]_vars

\* with ignore_light set, a red-light violation or a close red light is
\* tracked normally
C6_Witness ==
    /\ _cfg.ignore_light
    /\ ret.op = "forward" /\ ret.status = "ok"
    /\ \E k \in 1..Len(ret.data) :
           /\ \/ ret.data[k].obs.agent_state = 4
              \/ ret.data[k].obs.tl_state = 0 /\ ret.data[k].obs.tl_dis < 10
           /\ ret.trace[k].branch = "normal"
           /\ BaseController(_controller_dict[ret.data[k].id]).calls > 0
           /\ ret.actions[ret.data[k].id].steer = _last_steer_dict[ret.data[k].id]

(***************************************************************************)
(* C7: a forward whose batch names an id without a controller raises the   *)
(* lookup error, returns no action for any id, and creates no controller   *)
(* and no last-steer entry.                                                *)
(***************************************************************************)
C7_MissingController ==
    [][(/\ ret'.op = "forward"
        /\ \E k \in 1..Len(ret'.data) : ret'.data[k].id \notin DOMAIN _controller_dict)
          => /\ ret'.status = "KeyError"
             /\ ret'.actions = EmptyDict
             /\ DOMAIN _controller_dict' = DOMAIN _controller_dict
             /\ DOMAIN _last_steer_dict' = DOMAIN _last_steer_dict]_vars

\* a two-id batch fails at its second id after the first was served
C7_Witness ==
    /\ ret.op = "forward" /\ ret.status = "KeyError"
    /\ Len(ret.data) = 2 /\ Len(ret.trace) = 1
    /\ ret.actions = EmptyDict
    /\ ret.data[2].id \notin DOMAIN _controller_dict

(***************************************************************************)
(* C8: a forward made in eval mode never invokes a noise-wrapped           *)
(* controller, and a controller created by a collect-mode reset is         *)
(* noise-wrapped exactly when the noise flag of the configuration is set.  *)
(***************************************************************************)
C8_EvalNoNoise ==
    /\ (ret.op = "forward" /\ ret.mode = "eval") =>
           \A k \in Served(ret) :
               ret.trace[k].branch = "normal"
                   => ~IsNoisy(_controller_dict[ret.data[k].id])
    /\ (ret.op = "reset" /\ ret.mode = "collect") =>
           \A i \in ret.visited : IsNoisy(_controller_dict[i]) <=> _cfg.noise

(***************************************************************************)
(* C9: initialize leaves no controller and no last-steer entry; a forward  *)
(* for an id without a controller fails, and only a reset that runs for an *)
(* id gives it a controller; an initialize that follows an initialize (or  *)
(* the construction) changes nothing.                                      *)
(***************************************************************************)
C9_Initialize ==
    [][/\ ret'.op = "init" =>
            /\ _controller_dict' = EmptyDict
            /\ _last_steer_dict' = EmptyDict
            /\ ret.op \in {"init", "construct"} => Self' = Self
       /\ (/\ ret'.op = "forward"
           /\ \E k \in 1..Len(ret'.data) : ret'.data[k].id \notin DOMAIN _controller_dict)
            => ret'.status = "KeyError"
       /\ \A i \in Ids :
            (i \notin DOMAIN _controller_dict /\ i \in DOMAIN _controller_dict')
                => (ret'.op = "reset" /\ i \in ret'.visited)]_vars

\* an initialize that found both ids tracked
C9_Witness ==
    /\ ret.op = "init"
    /\ ret.tracked = Ids
    /\ _controller_dict = EmptyDict
    /\ _last_steer_dict = EmptyDict

(***************************************************************************)
(* C10: reset given no id list completes without error and leaves the set  *)
(* of tracked ids as it was, each with a controller as constructed and     *)
(* last steer 0.                                                           *)
(***************************************************************************)
C10_ResetAll ==
    (ret.op = "reset" /\ ret.all) =>
        /\ ret.status = "ok"
        /\ DOMAIN _controller_dict = ret.tracked
        /\ DOMAIN _last_steer_dict = ret.tracked
        /\ \A i \in ret.tracked :
               IsFresh(_controller_dict[i]) /\ _last_steer_dict[i] = 0

(***************************************************************************)
(* C11: every command a forward returns, on the emergency path and on the  *)
(* normal path, from a plain or a noise-wrapped controller, has steer in   *)
(* [-1, 1], throttle in [0, 1] and brake in [0, 1].                        *)
(***************************************************************************)
C11_CommandRanges ==
    (ret.op = "forward" /\ ret.status = "ok") =>
        \A i \in DOMAIN ret.actions :
            /\ ret.actions[i].steer >= -100 /\ ret.actions[i].steer <= 100
            /\ ret.actions[i].throttle >= 0 /\ ret.actions[i].throttle <= 100
            /\ ret.actions[i].brake >= 0 /\ ret.actions[i].brake <= 100

(***************************************************************************)
(* C13: gain resolution: the controller of every tracked id is built with  *)
(* the configured lateral gains when they are set, else with the highway   *)
(* lateral preset when the target speed is above 50 and the city preset    *)
(* otherwise (50 itself gives city); the same, independently, for the      *)
(* longitudinal gains.  Configured gains are never replaced by a preset.   *)
(***************************************************************************)
ExpectedLateral ==
    IF _cfg.lateral_dict # "None" THEN _cfg.lateral_dict
    ELSE IF _cfg.target_speed > 50 THEN "DEFAULT_LAT_HW_DICT"
    ELSE "DEFAULT_LAT_CITY_DICT"

ExpectedLongitudinal ==
    IF _cfg.longitudinal_dict # "None" THEN _cfg.longitudinal_dict
    ELSE IF _cfg.target_speed > 50 THEN "DEFAULT_LONG_HW_DICT"
    ELSE "DEFAULT_LONG_CITY_DICT"

C13_GainResolution ==
    /\ \A i \in DOMAIN _controller_dict :
           /\ BaseController(_controller_dict[i]).args_lateral = ExpectedLateral
           /\ BaseController(_controller_dict[i]).args_longitudinal
                = ExpectedLongitudinal
    /\ _cfg.lateral_dict # "None" => _lateral_dict = _cfg.lateral_dict
    /\ _cfg.longitudinal_dict # "None"
           => _longitudinal_dict = _cfg.longitudinal_dict

\* a reset at target speed exactly 50 with both gain dicts unset has built a
\* controller on the city presets
C13_Witness ==
    /\ _cfg.target_speed = 50
    /\ _cfg.lateral_dict = "None" /\ _cfg.longitudinal_dict = "None"
    /\ ret.op = "reset"
    /\ \E i \in ret.visited :
           /\ BaseController(_controller_dict[i]).args_lateral
                = "DEFAULT_LAT_CITY_DICT"
           /\ BaseController(_controller_dict[i]).args_longitudinal
                = "DEFAULT_LONG_CITY_DICT"

(***************************************************************************)
(* C14: in every reachable state the ids with a controller are the ids     *)
(* with a last-steer entry (a dict holds one value per key); a forward     *)
(* adds no id to and removes no id from either dict; a reset leaves each   *)
(* id it ran for with a new controller and last steer 0.                   *)
(***************************************************************************)
C14_OneControllerPerId ==
    /\ DOMAIN _controller_dict = DOMAIN _last_steer_dict
    /\ [][/\ DOMAIN _controller_dict' = DOMAIN _last_steer_dict'
          /\ ret'.op = "forward" =>
                /\ DOMAIN _controller_dict' = DOMAIN _controller_dict
                /\ DOMAIN _last_steer_dict' = DOMAIN _last_steer_dict
          /\ ret'.op = "reset" =>
                \A i \in ret'.visited :
                    /\ i \in DOMAIN _controller_dict'
                    /\ i \in DOMAIN _last_steer_dict'
                    /\ IsFresh(_controller_dict'[i])
                    /\ _last_steer_dict'[i] = 0]_vars

\* a forward for one id, served while both ids are tracked
C14_Witness ==
    /\ ret.op = "forward" /\ ret.status = "ok" /\ Len(ret.data) = 1
    /\ DOMAIN _controller_dict = Ids
    /\ DOMAIN _last_steer_dict = Ids
    /\ BaseController(_controller_dict[ret.data[1].id]).calls > 0

(***************************************************************************)
(* C15: on the normal-tracking path the target speed handed to the         *)
(* controller is the minimum of the configured target speed and the        *)
(* observation's speed_limit, so it exceeds neither.                       *)
(***************************************************************************)
C15_TargetSpeed ==
    ret.op = "forward" =>
        \A k \in Served(ret) :
            ret.trace[k].branch = "normal" =>
                /\ ret.trace[k].target_speed
                     = Min(_cfg.target_speed, ret.data[k].obs.speed_limit)
                /\ ret.trace[k].target_speed <= _cfg.target_speed
                /\ ret.trace[k].target_speed <= ret.data[k].obs.speed_limit

\* a normal forward under a speed limit below the configured target speed
C15_Witness ==
    /\ ret.op = "forward" /\ ret.status = "ok"
    /\ \E k \in Served(ret) :
           /\ ret.trace[k].branch = "normal"
           /\ ret.data[k].obs.speed_limit < _cfg.target_speed
           /\ ret.trace[k].target_speed = ret.data[k].obs.speed_limit

(***************************************************************************)
(* C16: per-id independence: a forward, or a reset given an id list,       *)
(* leaves the controller and the last steer of every tracked id it does    *)
(* not name as they were; the command a forward computes for an id is the  *)
(* one _forward computes from that id's observation, controller and last   *)
(* steer as they were before the call, whatever other ids the batch holds  *)
(* and in whatever order.                                                  *)
(***************************************************************************)
\* the policy with the controller and the last steer of id i only
OnlyId(i) ==
    [Self EXCEPT
        !._controller_dict = [j \in {i} |-> _controller_dict[j]],
        !._last_steer_dict = [j \in {i} |-> _last_steer_dict[j]]]

C16_PerIdIndependence ==
    [][/\ ret'.op = "forward" =>
            /\ \A i \in DOMAIN _controller_dict \ SeqIds(ret'.data) :
                   /\ _controller_dict'[i] = _controller_dict[i]
                   /\ _last_steer_dict'[i] = _last_steer_dict[i]
            /\ \A k \in Served(ret') :
                   \E n \in NoiseSet :
                       ret'.trace[k].control
                         = _forward(OnlyId(ret'.data[k].id), ret'.data[k].id,
                                    ret'.data[k].obs, n).control
       /\ (ret'.op = "reset" /\ ~ret'.all) =>
            \A i \in DOMAIN _controller_dict \ ret'.visited :
                /\ _controller_dict'[i] = _controller_dict[i]
                /\ _last_steer_dict'[i] = _last_steer_dict[i]]_vars

\* a two-id batch: the first id tracked normally to a non-zero steer, the
\* second stopped on its own last steer
C16_Witness ==
    /\ ret.op = "forward" /\ ret.status = "ok" /\ Len(ret.trace) = 2
    /\ ret.trace[1].branch = "normal"
    /\ ret.trace[1].control.steer # 0
    /\ ret.trace[2].branch = "emergency"
    /\ ret.trace[2].control.steer # ret.trace[1].control.steer
    /\ ret.trace[2].control.steer = _last_steer_dict[ret.data[2].id]

(***************************************************************************)
(* C17: the configuration is immutable after construction: no reset and no *)
(* forward changes the target speed, the brake, throttle and steer limits, *)
(* the traffic-light-ignore flag, the lateral or longitudinal gain         *)
(* settings or the noise flag, also when the gain dictionaries are unset.  *)
(***************************************************************************)
C17_ConfigImmutable ==
    [][ret'.op \in {"reset", "forward"} =>
        /\ _cfg' = _cfg
        /\ target_speed' = target_speed
        /\ _max_brake' = _max_brake
        /\ _max_throttle' = _max_throttle
        /\ _max_steer' = _max_steer
        /\ _ignore_traffic_light' = _ignore_traffic_light
        /\ _lateral_dict' = _lateral_dict
        /\ _longitudinal_dict' = _longitudinal_dict]_vars

(***************************************************************************)
(* C18: a batch forward that fails because one of its ids has no           *)
(* controller leaves the policy as it was before the call: no last steer   *)
(* is changed and no controller is invoked.                                *)
(***************************************************************************)
C18_FailedForwardFrame ==
    [][(ret'.op = "forward" /\ ret'.status = "KeyError") =>
        /\ _last_steer_dict' = _last_steer_dict
        /\ _controller_dict' = _controller_dict]_vars

(***************************************************************************)
(* C19: the episode loop of main never writes more than cfg.episode_nums   *)
(* episodes: the directories written are numbered within                   *)
(* 1..episode_nums, and when the loop is left they are exactly             *)
(* 1..episode_nums.                                                        *)
(***************************************************************************)
C19_EpisodeBound ==
    /\ written \subseteq 1..episode_nums
    /\ pc = "done" => written = 1..episode_nums

====
